---- MODULE Spec2Model ----
(***************************************************************************)
(* Nexto: industry insights (freshness-gated fetch, onboarding, weekly     *)
(* batch refresh), the retrying text generator of the interview actions,   *)
(* and enum normalization.                                                 *)
(*                                                                         *)
(* JavaScript values are records [t, v]: t is the typeof tag, v the        *)
(* characters of a string (a sequence of one-character strings).           *)
(***************************************************************************)
EXTENDS Integers, Sequences, FiniteSets, TLC

VARIABLES
  table,    \* rows of db.industryInsight
  users,    \* db.user: user -> industry (or NoIndustry)
  now,      \* Date.now(), in milliseconds
  ticks,    \* clock advances so far
  calls,    \* the server-action calls in flight, one per request slot
  started,  \* server-action calls started so far
  batch,    \* the weekly Inngest function run
  sg,       \* the safeGenerate call of the interview actions
  quiz,     \* the generateQuiz call
  en,       \* enum normalization applied to raw values
  act,      \* one server-action call, seen from outside: its effects and outcome
  cover     \* db.coverLetter and the last cover-letter call

storeVars == <<table, users, now, ticks, calls, started, batch>>
retryVars == <<sg, quiz>>

vars == <<table, users, now, ticks, calls, started, batch, sg, quiz, en, act, cover>>

(***************************************************************************)
(* Bounds and program constants                                            *)
(***************************************************************************)
MaxTicks == 1
MaxCalls == 2
MaxBatchRuns == 1

\* safeGenerate(prompt, retries = 3)
DefaultRetries == 3
\* setTimeout(res, 30000)
BackoffMs == 30000

TTL == 7 * 24 * 60 * 60 * 1000

Users == {"u1"}
Anonymous == "anonymous"
Industries == {"tech", "fin"}
NoIndustry == "null"
Procs == {1, 2}
TickSteps == {TTL}
\* the clock stays within two refresh intervals (and 32-bit arithmetic)
Horizon == 2 * TTL

(***************************************************************************)
(* JavaScript values                                                       *)
(***************************************************************************)
JS(t, v) == [t |-> t, v |-> v]
Undefined == JS("undefined", <<>>)
JSNull == JS("null", <<>>)
JSFunction == JS("function", <<>>)
Str(s) == JS("string", s)
Num(s) == JS("number", s)
\* arrays, by their elements
EmptyArray == JS("array", <<>>)
SomeArray == JS("array", <<"x">>)

Truthy(x) ==
  CASE x.t = "undefined" -> FALSE
    [] x.t = "null" -> FALSE
    [] x.t = "string" -> x.v # <<>>
    [] x.t = "number" -> x.v # <<"0">>
    [] OTHER -> TRUE

\* a || b
Or(a, b) == IF Truthy(a) THEN a ELSE b

UpperChar(c) ==
  CASE c = "a" -> "A" [] c = "b" -> "B" [] c = "c" -> "C" [] c = "d" -> "D"
    [] c = "e" -> "E" [] c = "g" -> "G" [] c = "h" -> "H" [] c = "i" -> "I"
    [] c = "l" -> "L" [] c = "m" -> "M" [] c = "n" -> "N" [] c = "o" -> "O"
    [] c = "p" -> "P" [] c = "r" -> "R" [] c = "s" -> "S" [] c = "t" -> "T"
    [] c = "u" -> "U" [] c = "v" -> "V" [] c = "w" -> "W"
    [] OTHER -> c

\* String.prototype.toUpperCase
ToUpperCase(s) == [i \in 1..Len(s) |-> UpperChar(s[i])]

HIGH == <<"H", "I", "G", "H">>
MEDIUM == <<"M", "E", "D", "I", "U", "M">>
LOW == <<"L", "O", "W">>
POSITIVE == <<"P", "O", "S", "I", "T", "I", "V", "E">>
NEUTRAL == <<"N", "E", "U", "T", "R", "A", "L">>
NEGATIVE == <<"N", "E", "G", "A", "T", "I", "V", "E">>

DemandLevels == <<HIGH, MEDIUM, LOW>>
MarketOutlooks == <<POSITIVE, NEUTRAL, NEGATIVE>>

Range(f) == {f[i] : i \in DOMAIN f}

(***************************************************************************)
(* The text-generation service: model.generateContent either throws an     *)
(* error with a status or answers with text.  A text is what JSON.parse    *)
(* makes of it once the code fences, if any, are gone.                      *)
(***************************************************************************)
Chars(w) ==
  CASE w = "High" -> <<"H", "i", "g", "h">>
    [] w = "high" -> <<"h", "i", "g", "h">>
    [] w = "Medium" -> <<"M", "e", "d", "i", "u", "m">>
    [] w = "Low" -> <<"L", "o", "w">>
    [] w = "low" -> <<"l", "o", "w">>
    [] w = "Positive" -> <<"P", "o", "s", "i", "t", "i", "v", "e">>
    [] w = "Neutral" -> <<"N", "e", "u", "t", "r", "a", "l">>
    [] w = "Negative" -> <<"N", "e", "g", "a", "t", "i", "v", "e">>
    [] w = "negative" -> <<"n", "e", "g", "a", "t", "i", "v", "e">>
    [] w = "bogus" -> <<"b", "o", "g", "u", "s">>
    [] w = "constructor" -> <<"c", "o", "n", "s", "t", "r", "u", "c", "t", "o", "r">>
    [] w = "toString" -> <<"t", "o", "S", "t", "r", "i", "n", "g">>
    [] w = "undefined" -> <<"u", "n", "d", "e", "f", "i", "n", "e", "d">>
    [] w = "null" -> <<"n", "u", "l", "l">>
    [] OTHER -> <<>>

ListFields == {"salaryRanges", "topSkills", "keyTrends", "recommendedSkills"}

\* a parsed answer without its list fields
Doc(dl, mo, gr) ==
  [demandLevel |-> dl, marketOutlook |-> mo, growthRate |-> gr,
   salaryRanges |-> Undefined, topSkills |-> Undefined, keyTrends |-> Undefined,
   recommendedSkills |-> Undefined]

Lists(doc, sr, ts, kt, rs) ==
  [doc EXCEPT !.salaryRanges = sr, !.topSkills = ts, !.keyTrends = kt,
              !.recommendedSkills = rs]

\* The parsed answers the service is made to give in the store specification.
Docs ==
  { Lists(Doc(Str(Chars("High")), Str(Chars("Positive")), Num(<<"1">>)),
          SomeArray, SomeArray, SomeArray, SomeArray),
    Lists(Doc(Str(HIGH), Str(Chars("negative")), Num(<<"2">>)),
          SomeArray, Undefined, EmptyArray, SomeArray),
    Lists(Doc(Undefined, Str(Chars("constructor")), Num(<<"2">>)),
          Undefined, JSNull, Undefined, Undefined),
    Lists(Doc(Num(<<"5">>), JSNull, Num(<<"2">>)),
          Str(Chars("bogus")), SomeArray, SomeArray, SomeArray) }

NoDoc == Doc(Undefined, Undefined, Undefined)

Text(json, fenced, doc) == [json |-> json, fenced |-> fenced, doc |-> doc]

Texts ==
  { Text("invalid", FALSE, NoDoc), Text("null", FALSE, NoDoc) }
    \cup { Text("object", f, d) : f \in BOOLEAN, d \in Docs }

Failure(status) == [kind |-> "error", status |-> status, text |-> Text("invalid", FALSE, NoDoc)]
Answer(text) == [kind |-> "text", status |-> 200, text |-> text]

Statuses == {429, 404, 500}

Responses == { Failure(s) : s \in Statuses } \cup { Answer(t) : t \in Texts }

\* err.message of the error model.generateContent throws
ErrorOf(status) ==
  CASE status = 429 -> "status 429"
    [] status = 404 -> "status 404"
    [] OTHER -> "status 500"

\* text.replace(/```json|```/g, "") and text.replace(/```(?:json)?\n?/g, "")
StripFences(text) == [text EXCEPT !.fenced = FALSE]

\* JSON.parse throws a SyntaxError on these texts
JsonParseThrows(text) == text.fenced \/ text.json = "invalid"

(***************************************************************************)
(* Enum normalization                                                      *)
(***************************************************************************)
\* ToPropertyKey of a value used as obj[value]
PropertyKey(x) ==
  CASE x.t = "string" -> x.v
    [] x.t = "number" -> x.v
    [] x.t = "undefined" -> Chars("undefined")
    [] x.t = "null" -> Chars("null")
    [] OTHER -> <<>>

\* Properties every object literal inherits from Object.prototype
ObjectPrototypeKeys == {Chars("constructor"), Chars("toString")}

demandLevelMap ==
  (Chars("High") :> Str(HIGH)) @@ (Chars("Medium") :> Str(MEDIUM)) @@ (Chars("Low") :> Str(LOW))

marketOutlookMap ==
  (Chars("Positive") :> Str(POSITIVE)) @@ (Chars("Neutral") :> Str(NEUTRAL))
    @@ (Chars("Negative") :> Str(NEGATIVE))

\* map[x] on an object literal
Lookup(map, x) ==
  LET k == PropertyKey(x) IN
  IF k \in DOMAIN map THEN map[k]
  ELSE IF k \in ObjectPrototypeKeys THEN JSFunction
  ELSE Undefined

\* generateAIInsights, "Map enums to Prisma values"
MapEnum(map, raw, fallback) == Or(Lookup(map, raw), Str(fallback))

MapEnums(parsed) ==
  [parsed EXCEPT !.demandLevel = MapEnum(demandLevelMap, @, MEDIUM),
                 !.marketOutlook = MapEnum(marketOutlookMap, @, NEUTRAL)]

\* value?.toUpperCase() throws a TypeError when value is neither nullish nor a string
UpperThrows(value) == value.t \notin {"undefined", "null", "string"}

OptionalUpper(value) ==
  IF value.t = "string" THEN Str(ToUpperCase(value.v)) ELSE Undefined

\* the upper-cased value returned without the membership test
normalizeEnumUnchecked(value, allowed, fallback) ==
  LET v == OptionalUpper(value) IN
  IF v.t = "string" THEN v ELSE Str(fallback)

\* normalizeEnum of the weekly function
normalizeEnum(value, allowed, fallback) ==
  LET v == OptionalUpper(value) IN
  IF v.t = "string" /\ v.v \in Range(allowed) THEN v ELSE Str(fallback)

(***************************************************************************)
(* generateAIInsights (dashboard actions): one call of the text generator, *)
(* no retry; any throw inside the try is rethrown as "Failed to generate   *)
(* AI insights".                                                           *)
(***************************************************************************)
\* only an error of generateContent leaves the try block
GenerateThrowsOnErrorOnly(resp) == resp.kind = "error"

\* the try block throws: generateContent threw, JSON.parse threw, or parsed is
\* null and parsed.demandLevel is a TypeError
GenerateThrows(resp) ==
  \/ resp.kind = "error"
  \/ JsonParseThrows(StripFences(resp.text))
  \/ resp.text.json = "null"

\* error.message, appended to "Failed to generate AI insights: "
GenerateError(resp) ==
  IF resp.kind = "error" THEN ErrorOf(resp.status)
  ELSE IF JsonParseThrows(StripFences(resp.text)) THEN "SyntaxError"
  ELSE "TypeError"

GenerateAIInsights(resp) == MapEnums(resp.text.doc)

(***************************************************************************)
(* The store                                                               *)
(***************************************************************************)
Row(id, industry, ins, lastUpdated, nextUpdate) ==
  [id |-> id, industry |-> industry, demandLevel |-> ins.demandLevel,
   marketOutlook |-> ins.marketOutlook, growthRate |-> ins.growthRate,
   salaryRanges |-> ins.salaryRanges, topSkills |-> ins.topSkills,
   keyTrends |-> ins.keyTrends, recommendedSkills |-> ins.recommendedSkills,
   lastUpdated |-> lastUpdated, nextUpdate |-> nextUpdate]

\* a list column takes whatever it is given
ListColumnAsGiven(old, value) == value

\* a list column (salaryRanges Json[], topSkills String[], ...) given undefined
\* keeps what it has: the empty list in a create, the stored list in an update
ListColumn(old, value) == IF value.t = "undefined" THEN old ELSE value

\* a list column refuses a value that is not a list
ListRefused(ins) == \E f \in ListFields : ins[f].t \notin {"undefined", "array"}

\* the payload as the store keeps it, old holding the lists stored before
Stored(old, ins) ==
  [f \in DOMAIN ins |-> IF f \in ListFields THEN ListColumn(old[f], ins[f]) ELSE ins[f]]

NoLists == [f \in ListFields |-> EmptyArray]

\* findUnique({ where: { industry } }): the rows found (none stands for null)
RowsOf(t, industry) == {r \in t : r.industry = industry}

\* a call holds the records it read or returns by reference
Ids(rows) == {r.id : r \in rows}

\* no unique index on industry
NoUniqueIndex(t, industry) == FALSE

\* industry is @unique: a create of a second row for the industry is refused
UniqueViolation(t, industry) == RowsOf(t, industry) # {}

\* lastUpdated is not given by updateUser's create: the column default, now()
DefaultLastUpdated(t) == t

NextId(t) == Cardinality(t) + 1

\* the next update due at the instant of writing
NextUpdateAtOnce(t) == t

\* new Date(Date.now() + 7 * 24 * 60 * 60 * 1000)
NextUpdateAt(t) == t + TTL

Result(kind, rows) == [kind |-> kind, rows |-> rows]
NoResult == Result("none", {})

\* path: what getIndustryInsights found ("hit", "miss", "stale")
\* error: the message of the error that ended the generation, if one did
IdleCall ==
  [op |-> "none", pc |-> "idle", caller |-> Anonymous, key |-> NoIndustry,
   path |-> "none", found |-> {}, insights |-> {}, gen |-> 0, ret |-> NoResult,
   error |-> "none"]

IdleBatch ==
  [pc |-> "idle", list |-> <<>>, i |-> 0, insights |-> {}, updated |-> {},
   skipped |-> {}, ret |-> "none", runs |-> 0]

\* the user chose an industry before any insight was stored for it
StoreInit ==
  /\ table = {}
  /\ users = [u \in Users |-> "tech"]
  /\ now = 0
  /\ ticks = 0
  /\ calls = [p \in Procs |-> IdleCall]
  /\ started = 0
  /\ batch = IdleBatch

\* a request takes the lowest free slot; a finished call leaves its slot to the next
Free(p) == calls[p].pc \in {"idle", "done"}

CanStart(p) ==
  /\ Free(p)
  /\ \A q \in Procs : q < p => ~Free(q)
  /\ started < MaxCalls

\* the call returns or throws: its result reaches the caller, its locals are gone
Finish(p, c, ret) ==
  calls' = [calls EXCEPT ![p] =
              [c EXCEPT !.pc = "done", !.ret = ret, !.caller = Anonymous,
                        !.found = {}, !.insights = {}]]

(***************************************************************************)
(* getIndustryInsights                                                     *)
(***************************************************************************)
\* the comparison made with lastUpdated instead of nextUpdate
IsExpiredSinceLastUpdated(found, t) == found # {} /\ \E r \in found : t >= r.lastUpdated

\* user.industryInsight && new Date() >= new Date(user.industryInsight.nextUpdate)
IsExpired(found, t) == found # {} /\ \E r \in found : t >= r.nextUpdate

\* Evaluating the argument of upsert: "lastUpdate: new Date.now()" is a TypeError
\* (Date.now is not a constructor), thrown before db.industryInsight.upsert is called
UpsertArgumentThrows == TRUE

\* db.industryInsight.upsert({ where: { industry }, update, create }); the update
\* names no lastUpdated
Upsert(t, industry, ins, at) ==
  IF RowsOf(t, industry) # {}
  THEN { IF r.industry = industry
         THEN Row(r.id, industry, ins, r.lastUpdated, NextUpdateAt(at))
         ELSE r : r \in t }
  ELSE t \cup { Row(NextId(t), industry, ins, at, NextUpdateAt(at)) }

\* auth, db.user.findUnique with the insight included, and the freshness test
GetStart(p, u) ==
  /\ CanStart(p)
  /\ started' = started + 1
  /\ LET c == [IdleCall EXCEPT !.op = "get", !.caller = u] IN
     IF u = Anonymous
     THEN Finish(p, c, Result("Unauthorized", {}))
     ELSE LET key == users[u]
              found == RowsOf(table, key)
              expired == IsExpired(found, now)
              path == IF found = {} THEN "miss" ELSE IF expired THEN "stale" ELSE "hit"
              d == [c EXCEPT !.key = key, !.path = path, !.caller = Anonymous]
          IN IF found = {} \/ expired
             THEN calls' = [calls EXCEPT ![p] = [d EXCEPT !.pc = "generate"]]
             ELSE Finish(p, d, Result("ok", Ids(found)))
  /\ UNCHANGED <<table, users, now, ticks, batch>>
  /\ UNCHANGED <<sg, quiz, en, act, cover>>

\* generateAIInsights(user.industry), then the upsert and the return
GetGenerate(p, resp) ==
  LET c == [calls[p] EXCEPT !.gen = @ + 1] IN
  /\ calls[p].op = "get"
  /\ calls[p].pc = "generate"
  /\ IF GenerateThrows(resp)
     THEN /\ Finish(p, [c EXCEPT !.error = GenerateError(resp)],
                    Result("GenerationFailed", {}))
          /\ table' = table
     ELSE LET ins == GenerateAIInsights(resp)
              d == [c EXCEPT !.insights = {ins}]
          IN IF UpsertArgumentThrows
             THEN /\ Finish(p, d, Result("TypeError", {}))
                  /\ table' = table
             ELSE /\ table' = Upsert(table, c.key, ins, now)
                  /\ Finish(p, d, Result("ok", Ids(RowsOf(table', c.key))))
  /\ UNCHANGED <<users, now, ticks, started, batch>>
  /\ UNCHANGED <<sg, quiz, en, act, cover>>

(***************************************************************************)
(* updateUser                                                              *)
(***************************************************************************)
\* auth, checkUser, db.industryInsight.findUnique({ where: { industry } })
UpdateStart(p, u, industry) ==
  /\ CanStart(p)
  /\ started' = started + 1
  /\ LET c == [IdleCall EXCEPT !.op = "updateUser", !.caller = u, !.key = industry] IN
     IF u = Anonymous
     THEN Finish(p, c, Result("Unauthorized", {}))
     ELSE LET found == RowsOf(table, industry) IN
          calls' = [calls EXCEPT ![p] =
                      [c EXCEPT !.found = Ids(found),
                                !.pc = IF found = {} THEN "generate" ELSE "tx"]]
  /\ UNCHANGED <<table, users, now, ticks, batch>>
  /\ UNCHANGED <<sg, quiz, en, act, cover>>

\* insights.demandLevel.toUpperCase(), insights.marketOutlook.toUpperCase()
UpperEnums(ins) ==
  [ins EXCEPT !.demandLevel = Str(ToUpperCase(@.v)),
              !.marketOutlook = Str(ToUpperCase(@.v))]

UpperEnumsThrows(ins) ==
  ins.demandLevel.t # "string" \/ ins.marketOutlook.t # "string"

\* generateAIInsights(data.industry) outside the transaction
UpdateGenerate(p, resp) ==
  LET c == [calls[p] EXCEPT !.gen = @ + 1] IN
  /\ calls[p].op = "updateUser"
  /\ calls[p].pc = "generate"
  /\ IF GenerateThrows(resp)
     THEN Finish(p, [c EXCEPT !.error = GenerateError(resp)],
                 Result("UpdateFailed: generation", {}))
     ELSE IF UpperEnumsThrows(GenerateAIInsights(resp))
     THEN Finish(p, [c EXCEPT !.error = "TypeError"],
                 Result("UpdateFailed: generation", {}))
     ELSE calls' = [calls EXCEPT ![p] =
                      [c EXCEPT !.pc = "tx",
                                !.insights = {UpperEnums(GenerateAIInsights(resp))}]]
  /\ UNCHANGED <<table, users, now, ticks, started, batch>>
  /\ UNCHANGED <<sg, quiz, en, act, cover>>

\* a write inside the transaction that the store refuses, if any
TxFaults == {"none", "create", "update"}

Db(t, u) == [table |-> t, users |-> u]

\* the writes made one after the other, each kept as soon as it is made
WritesKept(fault, before, created, after) ==
  CASE fault = "none" -> after
    [] fault = "update" -> created
    [] OTHER -> before

\* db.$transaction(async (tx) => { ... }): the writes of the callback are kept
\* together when it returns and dropped together when it throws
Transaction(fault, before, created, after) ==
  IF fault = "none" THEN after ELSE before

\* db.$transaction: create the insight when none was found, update the user
\* (the rows of the value returned are left out: nothing reads them)
UpdateTransaction(p, fault) ==
  LET c == calls[p]
      e == [c EXCEPT !.insights = {}]
      creates == c.found = {} /\ c.insights # {}
      ins == CHOOSE x \in c.insights : TRUE
      invalid == creates /\ ListRefused(ins)
      refused == creates /\ UniqueViolation(table, c.key)
      row == Row(NextId(table), c.key, Stored(NoLists, ins),
                 DefaultLastUpdated(now), NextUpdateAt(now))
      created == IF creates THEN table \cup {row} ELSE table
      db == IF invalid \/ refused THEN Db(table, users)
            ELSE Transaction(fault, Db(table, users), Db(created, users),
                             Db(created, [users EXCEPT ![c.caller] = c.key]))
  IN
  /\ c.op = "updateUser"
  /\ c.pc = "tx"
  /\ fault = "create" => creates
  /\ table' = db.table
  /\ users' = db.users
  /\ Finish(p, e, IF invalid THEN Result("UpdateFailed: validation", {})
                  ELSE IF refused THEN Result("UpdateFailed: unique constraint", {})
                  ELSE IF fault # "none" THEN Result("UpdateFailed: persistence", {})
                  ELSE Result("ok", {}))
  /\ UNCHANGED <<now, ticks, started, batch>>
  /\ UNCHANGED <<sg, quiz, en, act, cover>>

(***************************************************************************)
(* generateIndustryInsights: the weekly Inngest function                   *)
(***************************************************************************)
\* db.industryInsight.findMany({ select: { industry: true } }), in row order
Industry(t, i) == (CHOOSE r \in t : r.id = i).industry

FetchIndustries(t) == [i \in 1..Cardinality(t) |-> Industry(t, i)]

\* for (const { industry } of industries): on to the next one, or the end
Continue(b) ==
  IF b.i + 1 > Len(b.list)
  THEN [b EXCEPT !.pc = "done", !.ret = "ok", !.insights = {}]
  ELSE [b EXCEPT !.pc = "generate", !.i = @ + 1, !.insights = {}]

Throw(b, error) == [b EXCEPT !.pc = "done", !.ret = error, !.insights = {}]

\* the cron trigger and step "Fetch industries"
BatchStart ==
  /\ batch.pc \in {"idle", "done"}
  /\ batch.runs < MaxBatchRuns
  /\ LET list == FetchIndustries(table)
         b == [IdleBatch EXCEPT !.list = list, !.runs = batch.runs + 1]
     IN batch' = IF list = <<>>
                 THEN [b EXCEPT !.pc = "done", !.ret = "ok"]
                 ELSE [b EXCEPT !.pc = "generate", !.i = 1]
  /\ UNCHANGED <<table, users, now, ticks, calls, started>>
  /\ UNCHANGED <<sg, quiz, en, act, cover>>

\* insights.demandLevel = normalizeEnum(...); insights.marketOutlook = normalizeEnum(...)
NormalizeEnums(ins) ==
  [ins EXCEPT !.demandLevel = normalizeEnum(@, DemandLevels, MEDIUM),
              !.marketOutlook = normalizeEnum(@, MarketOutlooks, NEUTRAL)]

\* insights is null, or a raw enum value has no toUpperCase: a TypeError outside the try
NormalizeThrows(text) ==
  \/ text.json = "null"
  \/ UpperThrows(text.doc.demandLevel)
  \/ UpperThrows(text.doc.marketOutlook)

\* steps 3 to 5 for industries[i]: step.ai.wrap, clean, JSON.parse, normalizeEnum
BatchGenerate(resp) ==
  /\ batch.pc = "generate"
  /\ LET industry == batch.list[batch.i]
         cleaned == StripFences(resp.text)
     IN batch' =
          IF resp.kind = "error" THEN Throw(batch, "GenerationError")
          ELSE IF JsonParseThrows(cleaned)
          THEN Continue([batch EXCEPT !.skipped = @ \cup {industry}])
          ELSE IF NormalizeThrows(cleaned) THEN Throw(batch, "TypeError")
          ELSE [batch EXCEPT !.pc = "update",
                             !.insights = {NormalizeEnums(cleaned.doc)}]
  /\ UNCHANGED <<table, users, now, ticks, calls, started>>
  /\ UNCHANGED <<sg, quiz, en, act, cover>>

\* the data with growthRate || 0 alone
UpdateDataListsAsParsed(r, ins, at) ==
  Row(r.id, r.industry, [ins EXCEPT !.growthRate = Or(@, Num(<<"0">>))],
      at, NextUpdateAt(at))

\* the data of db.industryInsight.update
UpdateData(r, ins, at) ==
  Row(r.id, r.industry,
      [ins EXCEPT !.growthRate = Or(@, Num(<<"0">>)),
                  !.salaryRanges = Or(@, EmptyArray),
                  !.topSkills = Or(@, EmptyArray),
                  !.keyTrends = Or(@, EmptyArray),
                  !.recommendedSkills = Or(@, EmptyArray)],
      at, NextUpdateAt(at))

\* step 6: db.industryInsight.update({ where: { industry }, data })
BatchUpdate ==
  /\ batch.pc = "update"
  /\ LET industry == batch.list[batch.i]
         ins == CHOOSE x \in batch.insights : TRUE
     IN IF RowsOf(table, industry) = {}
        THEN /\ batch' = Throw(batch, "NotFound")
             /\ table' = table
        ELSE IF \E r \in RowsOf(table, industry) : ListRefused(UpdateData(r, ins, now))
        THEN /\ batch' = Throw(batch, "ValidationError")
             /\ table' = table
        ELSE /\ table' = { IF r.industry = industry
                           THEN Stored(r, UpdateData(r, ins, now))
                           ELSE r : r \in table }
             /\ batch' = Continue([batch EXCEPT !.updated = @ \cup {industry}])
  /\ UNCHANGED <<users, now, ticks, calls, started>>
  /\ UNCHANGED <<sg, quiz, en, act, cover>>

\* time passes
Tick(d) ==
  /\ ticks < MaxTicks
  /\ now + d <= Horizon
  /\ ticks' = ticks + 1
  /\ now' = now + d
  /\ UNCHANGED <<table, users, calls, started, batch>>
  /\ UNCHANGED <<sg, quiz, en, act, cover>>

StoreNext ==
  \/ \E p \in Procs, u \in Users \cup {Anonymous} : GetStart(p, u)
  \/ \E p \in Procs, resp \in Responses : GetGenerate(p, resp)
  \/ \E p \in Procs, u \in Users \cup {Anonymous}, k \in Industries : UpdateStart(p, u, k)
  \/ \E p \in Procs, resp \in Responses : UpdateGenerate(p, resp)
  \/ \E p \in Procs, fault \in TxFaults : UpdateTransaction(p, fault)
  \/ BatchStart
  \/ \E resp \in Responses : BatchGenerate(resp)
  \/ BatchUpdate
  \/ \E d \in TickSteps : Tick(d)

(***************************************************************************)
(* safeGenerate and generateQuiz (interview actions)                       *)
(***************************************************************************)
Question(q) ==
  [question |-> q, options |-> <<"A", "B", "C", "D">>, correctAnswer |-> "A",
   explanation |-> "because"]

\* quiz.questions: undefined when the answer has no such field
Questions(items) == [defined |-> TRUE, items |-> items]
NoQuestions == [defined |-> FALSE, items |-> <<>>]

QuizText(json, fenced, questions) ==
  [json |-> json, fenced |-> fenced, questions |-> questions]

QuizTexts ==
  { QuizText("invalid", FALSE, NoQuestions),
    QuizText("null", FALSE, NoQuestions),
    QuizText("object", FALSE, NoQuestions),
    QuizText("object", FALSE, Questions(<<>>)),
    QuizText("object", FALSE, Questions(<<Question("q1")>>)),
    QuizText("object", FALSE, Questions(<<Question("q1"), Question("q2")>>)),
    QuizText("object", TRUE, Questions(<<Question("q1")>>)) }

NoQuizText == QuizText("invalid", FALSE, NoQuestions)

QuizResponses ==
  { [kind |-> "error", status |-> st, text |-> NoQuizText] : st \in Statuses }
    \cup { [kind |-> "text", status |-> 200, text |-> t] : t \in QuizTexts }

NotApplied == [status |-> "none", value |-> NoDoc]

IdleEnum == [raw |-> NoDoc, interactive |-> NotApplied, batch |-> NotApplied]

IdleSg ==
  [pc |-> "idle", budget |-> 0, retries |-> 0, hist |-> <<>>, waits |-> 0,
   waited |-> 0, result |-> {}, error |-> "none"]

IdleQuiz ==
  [pc |-> "idle", caller |-> Anonymous, outcome |-> "none", ret |-> NoQuestions,
   error |-> "none"]

\* authenticated callers without a row in db.user
Strangers == {"ghost"}

\* effects: the store accesses and generator calls made so far, in order
\* failed: a store access of the call has failed
IdleAct ==
  [name |-> "none", caller |-> Anonymous, pc |-> 0, outcome |-> "none",
   error |-> "none", effects |-> <<>>, failed |-> FALSE]

\* the callers of the cover-letter actions that have a row in db.user
Writers == {"a", "b"}

\* what the last cover-letter call did: the letters it returned, the error it threw
NoCoverCall ==
  [op |-> "none", caller |-> Anonymous, id |-> 0, outcome |-> "none",
   error |-> "none", returned |-> {}]

\* letters: the rows of db.coverLetter; created: the rows created so far
IdleCover == [letters |-> {}, created |-> 0, last |-> NoCoverCall]

\* a direct call safeGenerate(prompt, retries)
SafeGenerateStart(r) ==
  /\ sg.pc = "idle"
  /\ quiz.pc = "idle"
  /\ sg' = [IdleSg EXCEPT !.pc = "call", !.budget = r, !.retries = r]
  /\ UNCHANGED quiz
  /\ UNCHANGED <<storeVars, en, act, cover>>

\* every error retried while retries are left, whatever its status
ShouldRetryAnyStatus(retries, status) == retries > 0

\* the retries are never counted down
RetriesKept(retries) == retries

\* one retry more than the retries given
ShouldRetryOnceMore(retries, status) == retries >= 0 /\ status = 429

\* if (retries > 0 && err.status === 429)
ShouldRetry(retries, status) == retries > 0 /\ status = 429

\* safeGenerate(prompt, retries - 1)
RetriesLeft(retries) == retries - 1

\* model.generateContent(prompt) and the catch block up to the wait
SafeGenerateCall(resp) ==
  /\ sg.pc = "call"
  /\ LET c == [sg EXCEPT !.hist = Append(@, resp)] IN
     sg' = IF resp.kind = "text"
           THEN [c EXCEPT !.pc = "returned", !.result = {resp.text}]
           ELSE IF resp.status = 404
           THEN [c EXCEPT !.pc = "thrown", !.error = "Model name is outdated"]
           ELSE IF ShouldRetry(sg.retries, resp.status)
           THEN [c EXCEPT !.pc = "backoff"]
           ELSE [c EXCEPT !.pc = "thrown", !.error = ErrorOf(resp.status)]
  /\ UNCHANGED quiz
  /\ UNCHANGED <<storeVars, en, act, cover>>

\* the 30 s wait is over: return safeGenerate(prompt, retries - 1)
Backoff ==
  /\ sg.pc = "backoff"
  /\ sg' = [sg EXCEPT !.pc = "call", !.retries = RetriesLeft(@), !.waits = @ + 1,
                      !.waited = @ + BackoffMs]
  /\ UNCHANGED quiz
  /\ UNCHANGED <<storeVars, en, act, cover>>

\* generateQuiz: auth, db.user.findUnique, then safeGenerate(prompt)
QuizStart(u) ==
  /\ quiz.pc = "idle"
  /\ sg.pc = "idle"
  /\ LET q == [IdleQuiz EXCEPT !.caller = u] IN
     IF u = Anonymous
     THEN /\ quiz' = [q EXCEPT !.pc = "done", !.outcome = "raised", !.error = "Unauthorized"]
          /\ sg' = sg
     ELSE IF u \in Strangers
     THEN /\ quiz' = [q EXCEPT !.pc = "done", !.outcome = "raised", !.error = "User not found"]
          /\ sg' = sg
     ELSE /\ quiz' = [q EXCEPT !.pc = "generating"]
          /\ sg' = [IdleSg EXCEPT !.pc = "call", !.budget = DefaultRetries,
                                  !.retries = DefaultRetries]
  /\ UNCHANGED <<storeVars, en, act, cover>>

FallbackQuestions ==
  Questions(<<[question |-> "Fallback question...", options |-> <<"A", "B", "C", "D">>,
               correctAnswer |-> "A", explanation |-> "Error fallback"]>>)

\* the catch block returning nothing at all
QuizCatchEmpty == Questions(<<>>)

\* catch (error) { ...; return [ fallback question ] }
QuizCatch == FallbackQuestions

\* JSON.parse(result.response.text()) throws, or quiz is null and quiz.questions throws
QuizParseThrows(text) == JsonParseThrows(text) \/ text.json = "null"

\* the try block after safeGenerate, and the catch block
QuizFinish ==
  /\ quiz.pc = "generating"
  /\ sg.pc \in {"returned", "thrown"}
  /\ LET ret == IF sg.pc = "thrown" THEN QuizCatch
                ELSE LET text == CHOOSE t \in sg.result : TRUE IN
                     IF QuizParseThrows(text) THEN QuizCatch ELSE text.questions
     IN quiz' = [quiz EXCEPT !.pc = "done", !.outcome = "returned", !.ret = ret]
  /\ UNCHANGED sg
  /\ UNCHANGED <<storeVars, en, act, cover>>

RetryInit ==
  /\ StoreInit
  /\ sg = IdleSg
  /\ quiz = IdleQuiz
  /\ en = IdleEnum
  /\ act = IdleAct
  /\ cover = IdleCover

RetryNext ==
  \/ \E r \in 0..DefaultRetries : SafeGenerateStart(r)
  \/ \E resp \in QuizResponses : SafeGenerateCall(resp)
  \/ Backoff
  \/ \E u \in Users \cup Strangers \cup {Anonymous} : QuizStart(u)
  \/ QuizFinish

SpecRetry == RetryInit /\ [][RetryNext]_vars

(***************************************************************************)
(* Enum normalization on its own: the two normalizers applied to a raw     *)
(* parsed answer                                                           *)
(***************************************************************************)
RawDemandLevels ==
  { Undefined, JSNull, Num(<<"5">>), Str(<<>>), Str(HIGH), Str(Chars("High")),
    Str(Chars("high")), Str(Chars("Medium")), Str(Chars("Low")), Str(Chars("low")),
    Str(Chars("bogus")), Str(NEUTRAL) }

RawMarketOutlooks ==
  { Undefined, JSNull, Num(<<"5">>), Str(POSITIVE), Str(Chars("Positive")),
    Str(Chars("Neutral")), Str(Chars("Negative")), Str(Chars("negative")),
    Str(Chars("bogus")), Str(LOW) }

EnumInit ==
  /\ StoreInit
  /\ sg = IdleSg
  /\ quiz = IdleQuiz
  /\ en \in { [IdleEnum EXCEPT !.raw = Doc(a, b, Num(<<"1">>))] :
               a \in RawDemandLevels, b \in RawMarketOutlooks }
  /\ act = IdleAct
  /\ cover = IdleCover

\* generateAIInsights maps the enums of the parsed answer
ApplyMapEnums ==
  /\ en.interactive.status = "none"
  /\ en' = [en EXCEPT !.interactive = [status |-> "done", value |-> MapEnums(en.raw)]]
  /\ UNCHANGED <<storeVars, retryVars, act, cover>>

\* the weekly function normalizes the enums of the parsed answer
ApplyNormalizeEnum ==
  /\ en.batch.status = "none"
  /\ en' = [en EXCEPT !.batch =
              IF UpperThrows(en.raw.demandLevel) \/ UpperThrows(en.raw.marketOutlook)
              THEN [status |-> "TypeError", value |-> NoDoc]
              ELSE [status |-> "done", value |-> NormalizeEnums(en.raw)]]
  /\ UNCHANGED <<storeVars, retryVars, act, cover>>

EnumNext == ApplyMapEnums \/ ApplyNormalizeEnum

SpecEnum == EnumInit /\ [][EnumNext]_vars

Init ==
  StoreInit /\ sg = IdleSg /\ quiz = IdleQuiz /\ en = IdleEnum /\ act = IdleAct
    /\ cover = IdleCover

Next == StoreNext

Spec == Init /\ [][Next]_vars

(***************************************************************************)
(* The exported server actions, each as the sequence of its statements     *)
(* that reach a collaborator (the identity context, the store, the text    *)
(* generator), with the catch block that encloses each statement.          *)
(***************************************************************************)
\* const { userId } = await auth(); absent: what the code does without a userId
Auth(absent) == [kind |-> "auth", on |-> absent, what |-> "identity", maybe |-> FALSE]

\* a store read; caught: "no" (outside any try), "rethrow" (the catch throws a
\* new Error), "return" (the catch returns a value)
Find(what, caught) == [kind |-> "read", on |-> caught, what |-> what, maybe |-> FALSE]

\* a store write
Write(what, caught) == [kind |-> "write", on |-> caught, what |-> what, maybe |-> FALSE]

\* if (!user) throw new Error("User not found")
Exists == [kind |-> "exists", on |-> "throw", what |-> "user", maybe |-> FALSE]

\* a call of the text generator; caught: "rethrow", "return" (the catch returns
\* a value) or "continue" (the catch sets a default and the function goes on)
Generate(caught) == [kind |-> "generate", on |-> caught, what |-> "model", maybe |-> FALSE]

\* return of a value the data may call for before the end of the function
ReturnIf(what) == [kind |-> "return", on |-> "return", what |-> what, maybe |-> TRUE]

\* an expression that always throws
Throws(what) == [kind |-> "throws", on |-> "throw", what |-> what, maybe |-> FALSE]

\* a statement under an if: the data decide whether it runs
Maybe(step) == [step EXCEPT !.maybe = TRUE]

generateCoverLetter ==
  <<Auth("throw"), Find("user", "no"), Exists, Generate("rethrow"),
    Write("coverLetter", "rethrow")>>

getCoverLetters == <<Auth("throw"), Find("user", "no"), Exists, Find("coverLetter", "no")>>

getCoverLetter == <<Auth("throw"), Find("user", "no"), Exists, Find("coverLetter", "no")>>

deleteCoverLetter == <<Auth("throw"), Find("user", "no"), Exists, Write("coverLetter", "no")>>

generateQuiz == <<Auth("throw"), Find("user", "no"), Exists, Generate("return")>>

saveQuizResult ==
  <<Auth("throw"), Find("user", "no"), Exists, Maybe(Generate("continue")),
    Write("assessment", "rethrow")>>

getAssessments == <<Auth("throw"), Find("user", "no"), Exists, Find("assessment", "rethrow")>>

\* no auth() in generateAIInsights
generateAIInsights == <<Generate("rethrow")>>

getIndustryInsights ==
  <<Auth("throw"), Find("user", "no"), Exists, ReturnIf("user.industryInsight"),
    Generate("rethrow"), Throws("new Date.now()"), Write("industryInsight", "no")>>

\* checkUser() is called outside the try: a failure of its store access is raised
updateUser ==
  <<Auth("throw"), Find("checkUser", "no"), Find("industryInsight", "rethrow"),
    Maybe(Generate("rethrow")), Write("$transaction", "rethrow")>>

getUserOnboardingStatus == <<Auth("return"), Find("user", "return")>>

Program(name) ==
  CASE name = "generateCoverLetter" -> generateCoverLetter
    [] name = "getCoverLetters" -> getCoverLetters
    [] name = "getCoverLetter" -> getCoverLetter
    [] name = "deleteCoverLetter" -> deleteCoverLetter
    [] name = "generateQuiz" -> generateQuiz
    [] name = "saveQuizResult" -> saveQuizResult
    [] name = "getAssessments" -> getAssessments
    [] name = "getIndustryInsights" -> getIndustryInsights
    [] name = "generateAIInsights" -> generateAIInsights
    [] name = "updateUser" -> updateUser
    [] name = "getUserOnboardingStatus" -> getUserOnboardingStatus
    [] OTHER -> <<>>

ServerActions ==
  {"generateCoverLetter", "getCoverLetters", "getCoverLetter", "deleteCoverLetter",
   "generateQuiz", "saveQuizResult", "getAssessments", "getIndustryInsights",
   "generateAIInsights", "updateUser", "getUserOnboardingStatus"}

Raise(a, error) == [a EXCEPT !.outcome = "raised", !.error = error]

Return(a) == [a EXCEPT !.outcome = "returned"]

\* on to the next statement; the end of the function returns its value
Advance(a) ==
  IF a.pc = Len(Program(a.name)) THEN Return(a) ELSE [a EXCEPT !.pc = @ + 1]

\* what the enclosing catch block makes of an error thrown by a statement
Caught(a, on, error) ==
  CASE on = "no" -> Raise(a, error)
    [] on = "rethrow" -> Raise(a, "Failed")
    [] on = "return" -> Return(a)
    [] OTHER -> Advance(a)

\* a client calls the server action
ActStart(name, caller) ==
  /\ act.name = "none"
  /\ act' = [IdleAct EXCEPT !.name = name, !.caller = caller, !.pc = 1]
  /\ UNCHANGED <<storeVars, retryVars, en, cover>>

\* the statement at pc runs; ok: the collaborator it reaches succeeds;
\* taken: the condition of an if around it holds
ActStep(ok, taken) ==
  /\ act.name # "none"
  /\ act.outcome = "none"
  /\ LET st == Program(act.name)[act.pc]
         did == [act EXCEPT !.effects = Append(@, st.kind)]
     IN act' =
          IF st.maybe /\ ~taken THEN Advance(act)
          ELSE CASE st.kind = "auth" ->
                      IF act.caller # Anonymous THEN Advance(act)
                      ELSE IF st.on = "throw" THEN Raise(act, "Unauthorized")
                      ELSE Return(act)
                 [] st.kind = "exists" ->
                      IF act.caller \in Strangers THEN Raise(act, "User not found")
                      ELSE Advance(act)
                 [] st.kind \in {"read", "write"} ->
                      IF ok THEN Advance(did)
                      ELSE Caught([did EXCEPT !.failed = TRUE], st.on, "PersistenceFailed")
                 [] st.kind = "generate" ->
                      IF ok THEN Advance(did) ELSE Caught(did, st.on, "GenerationFailed")
                 [] st.kind = "return" -> Return(act)
                 [] OTHER -> Raise(act, "TypeError")
  /\ UNCHANGED <<storeVars, retryVars, en, cover>>

ActionsNext ==
  \/ \E name \in ServerActions, caller \in Users \cup Strangers \cup {Anonymous} :
       ActStart(name, caller)
  \/ \E ok \in BOOLEAN, taken \in BOOLEAN : ActStep(ok, taken)

SpecActions == Init /\ [][ActionsNext]_vars

(***************************************************************************)
(* The cover-letter actions with their data: db.coverLetter rows and the   *)
(* where clauses that select them                                          *)
(***************************************************************************)
MaxLetters == 2

LetterIds == 1..MaxLetters

\* user.id of the row db.user.findUnique({ where: { clerkUserId: userId } }) finds
UserRowId(u) == <<"user.id", u>>

CoverLetter(id, userId) == [id |-> id, userId |-> userId, status |-> "completed"]

\* where: { id }
WhereId(l, id, userId) == l.id = id

\* where: { id, userId: user.id }
WhereIdAndUser(l, id, userId) == l.id = id /\ l.userId = userId

CoverCall(op, u, id) == [NoCoverCall EXCEPT !.op = op, !.caller = u, !.id = id]

CoverRaise(c, error) == [c EXCEPT !.outcome = "raised", !.error = error]

CoverReturn(c, rows) == [c EXCEPT !.outcome = "returned", !.returned = rows]

\* auth() and db.user.findUnique: the error thrown before any cover-letter access
NoUser(u) ==
  CASE u = Anonymous -> "Unauthorized"
    [] u \in Strangers -> "User not found"
    [] OTHER -> "none"

\* generateCoverLetter(data); ok: the generator answers and the create succeeds
GenerateCoverLetter(u, ok) ==
  LET c == CoverCall("generateCoverLetter", u, 0)
      row == CoverLetter(cover.created + 1, UserRowId(u))
  IN
  /\ cover.created < MaxLetters
  /\ cover' =
       IF NoUser(u) # "none" THEN [cover EXCEPT !.last = CoverRaise(c, NoUser(u))]
       ELSE IF ~ok
       THEN [cover EXCEPT !.last = CoverRaise(c, "Failed to generate cover letter")]
       ELSE [letters |-> cover.letters \cup {row}, created |-> cover.created + 1,
             last |-> CoverReturn(c, {row})]
  /\ UNCHANGED <<storeVars, retryVars, en, act>>

\* getCoverLetters(): findMany({ where: { userId: user.id } })
GetCoverLetters(u) ==
  LET c == CoverCall("getCoverLetters", u, 0) IN
  /\ cover' =
       IF NoUser(u) # "none" THEN [cover EXCEPT !.last = CoverRaise(c, NoUser(u))]
       ELSE [cover EXCEPT !.last =
               CoverReturn(c, {l \in cover.letters : l.userId = UserRowId(u)})]
  /\ UNCHANGED <<storeVars, retryVars, en, act>>

\* getCoverLetter(id): findUnique({ where: { id, userId: user.id } }), null when
\* no row matches
GetCoverLetter(u, id) ==
  LET c == CoverCall("getCoverLetter", u, id) IN
  /\ cover' =
       IF NoUser(u) # "none" THEN [cover EXCEPT !.last = CoverRaise(c, NoUser(u))]
       ELSE [cover EXCEPT !.last =
               CoverReturn(c, {l \in cover.letters : WhereIdAndUser(l, id, UserRowId(u))})]
  /\ UNCHANGED <<storeVars, retryVars, en, act>>

\* deleteCoverLetter(id): delete({ where: { id, userId: user.id } }), which
\* throws when no row matches
DeleteCoverLetter(u, id) ==
  LET c == CoverCall("deleteCoverLetter", u, id)
      found == {l \in cover.letters : WhereIdAndUser(l, id, UserRowId(u))}
  IN
  /\ cover' =
       IF NoUser(u) # "none" THEN [cover EXCEPT !.last = CoverRaise(c, NoUser(u))]
       ELSE IF found = {}
       THEN [cover EXCEPT !.last = CoverRaise(c, "Record to delete does not exist")]
       ELSE [cover EXCEPT !.letters = @ \ found, !.last = CoverReturn(c, found)]
  /\ UNCHANGED <<storeVars, retryVars, en, act>>

CoverCallers == Writers \cup Strangers \cup {Anonymous}

LettersNext ==
  \/ \E u \in CoverCallers, ok \in BOOLEAN : GenerateCoverLetter(u, ok)
  \/ \E u \in CoverCallers : GetCoverLetters(u)
  \/ \E u \in CoverCallers, id \in LetterIds : GetCoverLetter(u, id)
  \/ \E u \in CoverCallers, id \in LetterIds : DeleteCoverLetter(u, id)

SpecLetters == Init /\ [][LettersNext]_vars

(***************************************************************************)
(* Properties of the store specification                                   *)
(***************************************************************************)
GetDone(p, path) ==
  calls[p].op = "get" /\ calls[p].pc = "done" /\ calls[p].path = path

Consistent(r) == r.nextUpdate = r.lastUpdated + TTL

\* C1: the first getIndustryInsights for an industry that has no record, with
\* the generator succeeding, leaves exactly one record of that industry in the
\* store, and that record has nextUpdate = lastUpdated + TTL.
C1_FirstGetCreatesOneRecord ==
  \A p \in Procs :
    (GetDone(p, "miss") /\ calls[p].key \in Industries
       /\ calls[p].ret.kind # "GenerationFailed")
    => /\ Cardinality(RowsOf(table, calls[p].key)) = 1
       /\ \A r \in RowsOf(table, calls[p].key) : Consistent(r)

\* the step in which slot p starts a getIndustryInsights call
GetStarts(p) ==
  /\ CanStart(p)
  /\ started' = started + 1
  /\ calls'[p].op = "get"

Unexpired(rows) == rows # {} /\ \A r \in rows : now < r.nextUpdate

\* C2: when the caller's industry has a record and now < nextUpdate,
\* getIndustryInsights returns that record, does not call the generator and
\* leaves the store as it was.
C2_HitReturnsRecordWithoutWrite ==
  [][\A p \in Procs :
       (GetStarts(p) /\ calls'[p].key \in Industries
          /\ Unexpired(RowsOf(table, calls'[p].key)))
       => /\ calls'[p].pc = "done"
          /\ calls'[p].ret = Result("ok", Ids(RowsOf(table, calls'[p].key)))
          /\ calls'[p].gen = 0
          /\ table' = table
          /\ users' = users]_vars

C2_Witness ==
  \E p \in Procs :
    /\ GetDone(p, "hit")
    /\ calls[p].gen = 0
    /\ calls[p].ret.kind = "ok"
    /\ calls[p].ret.rows = Ids(RowsOf(table, calls[p].key))
    /\ Unexpired(RowsOf(table, calls[p].key))

\* C3: when the caller's industry has a record and now >= nextUpdate, and the
\* generator succeeds, getIndustryInsights calls the generator exactly once
\* and ends by returning the refreshed record, stored with lastUpdated = now
\* and nextUpdate = now + TTL.
C3_StaleGetRefreshesRecord ==
  \A p \in Procs :
    (GetDone(p, "stale") /\ calls[p].ret.kind # "GenerationFailed")
    => /\ calls[p].gen = 1
       /\ calls[p].ret.kind = "ok"
       /\ calls[p].ret.rows = Ids(RowsOf(table, calls[p].key))
       /\ \A r \in RowsOf(table, calls[p].key) : Consistent(r) /\ now < r.nextUpdate + TTL

AllowedDemandLevels == {Str(x) : x \in Range(DemandLevels)}
AllowedMarketOutlooks == {Str(x) : x \in Range(MarketOutlooks)}

\* C7: every stored record has demandLevel in {HIGH, MEDIUM, LOW} and
\* marketOutlook in {POSITIVE, NEUTRAL, NEGATIVE}.
C7_StoredEnumsAllowed ==
  \A r \in table :
    /\ r.demandLevel \in AllowedDemandLevels
    /\ r.marketOutlook \in AllowedMarketOutlooks

\* both ways of writing have acted: updateUser created a record, the weekly
\* function rewrote one, a default stands in for a raw value out of the set
C7_Witness ==
  /\ Cardinality(table) = 2
  /\ batch.updated # {}
  /\ \E r \in table : r.demandLevel = Str(MEDIUM) /\ r.industry \in batch.updated
  /\ \E r \in table : r.demandLevel = Str(HIGH) /\ r.industry \notin batch.updated

\* C8: a run of the weekly function in which the generator answers for every
\* subject ends without an error, having updated exactly the subjects whose
\* answer could be parsed.
C8_BatchSkipsAndContinues ==
  (batch.pc = "done" /\ batch.ret # "GenerationError")
  => /\ batch.ret = "ok"
     /\ batch.updated = Range(batch.list) \ batch.skipped

\* C10: at most one record per industry.
C10_OneRecordPerIndustry ==
  \A k \in Industries : Cardinality(RowsOf(table, k)) <= 1

\* two updateUser calls found no record of the same industry and both
\* generated; one created the record, the other's create was refused
C10_Witness ==
  \E p, q \in Procs :
    /\ calls[p].op = "updateUser" /\ calls[q].op = "updateUser"
    /\ calls[p].pc = "done" /\ calls[q].pc = "done"
    /\ calls[p].key = calls[q].key
    /\ calls[p].ret.kind = "ok" /\ calls[p].gen = 1
    /\ calls[q].ret.kind = "UpdateFailed: unique constraint"
    /\ Cardinality(RowsOf(table, calls[p].key)) = 1

Regenerated(p) ==
  /\ calls[p].op = "get" /\ calls[p].pc = "done"
  /\ calls[p].path \in {"miss", "stale"}
  /\ calls[p].gen = 1
  /\ calls[p].ret.kind # "GenerationFailed"

\* C14: when two get calls for the same absent or stale key have both
\* regenerated and completed, both have returned the record of the key and
\* the store holds exactly one record of that key.
C14_RefreshRaceConverges ==
  \A p, q \in Procs :
    (p # q /\ Regenerated(p) /\ Regenerated(q) /\ calls[p].key = calls[q].key)
    => /\ Cardinality(RowsOf(table, calls[p].key)) = 1
       /\ calls[p].ret = Result("ok", Ids(RowsOf(table, calls[p].key)))
       /\ calls[q].ret = Result("ok", Ids(RowsOf(table, calls[q].key)))

\* C15: the transaction step of an updateUser call either fails and leaves
\* records and users as they were, or succeeds with the caller's user updated;
\* a record it creates never stays without the user update.  The generator
\* call of an updateUser is made before its transaction step.
C15_UpdateUserAllOrNothing ==
  [][\A p \in Procs :
       /\ (calls[p].op = "updateUser" /\ calls[p].pc = "tx" /\ calls'[p].pc = "done")
          => IF calls'[p].ret.kind = "ok"
             THEN /\ users'[calls[p].caller] = calls[p].key
                  /\ RowsOf(table', calls[p].key) # {}
             ELSE table' = table /\ users' = users
       /\ (calls[p].op = "updateUser" /\ calls'[p].gen > calls[p].gen)
          => calls[p].pc = "generate" /\ calls'[p].pc \in {"tx", "done"}]_vars

\* the user update of a transaction that had created a record failed: the
\* record of the new industry is not in the store and the user keeps the old one
C15_Witness ==
  \E p \in Procs :
    /\ calls[p].op = "updateUser" /\ calls[p].pc = "done"
    /\ calls[p].gen = 1
    /\ calls[p].ret.kind = "UpdateFailed: persistence"
    /\ RowsOf(table, calls[p].key) = {}
    /\ \A u \in Users : users[u] # calls[p].key

\* C17: generateAIInsights retries on rate-limiting: a get or updateUser does
\* not end in failure on a single generator call that failed with RateLimited.
C17_InsightGeneratorRetriesRateLimited ==
  \A p \in Procs :
    (calls[p].op \in {"get", "updateUser"} /\ calls[p].error = ErrorOf(429))
    => calls[p].pc # "done" \/ calls[p].gen > 1

\* the texts JSON.parse cannot parse once the code fences are gone
Unparsable == {t \in Texts : JsonParseThrows(StripFences(t))}

\* C18: a generator text that cannot be parsed ends the get or the updateUser
\* at that step with a raised error, with records and users as they were.
C18_UnparsableFailsWithoutWrite ==
  [][\A p \in Procs, t \in Unparsable :
       (GetGenerate(p, Answer(t)) \/ UpdateGenerate(p, Answer(t)))
       => /\ calls'[p].pc = "done"
          /\ calls'[p].ret \in {Result("GenerationFailed", {}),
                                Result("UpdateFailed: generation", {})}
          /\ calls'[p].error = "SyntaxError"
          /\ table' = table
          /\ users' = users]_vars

\* a get and an updateUser to a new industry both ended on unparsable text:
\* no record was written and the user keeps the old industry
C18_Witness ==
  \E p, q \in Procs :
    /\ calls[p].op = "get" /\ calls[p].pc = "done"
    /\ calls[p].ret.kind = "GenerationFailed" /\ calls[p].error = "SyntaxError"
    /\ calls[q].op = "updateUser" /\ calls[q].pc = "done"
    /\ calls[q].ret.kind = "UpdateFailed: generation" /\ calls[q].error = "SyntaxError"
    /\ table = {}
    /\ \A u \in Users : users[u] # calls[q].key

\* C19: an error raised by the generator call for one subject never ends a
\* run of the weekly function: the run goes on and ends without that error.
C19_BatchCatchesGeneratorErrors ==
  /\ batch.ret # "GenerationError"
  /\ (batch.pc = "done" /\ batch.ret \notin {"TypeError", "NotFound"})
     => batch.ret = "ok" /\ batch.i = Len(batch.list)

\* the list fields that the parsed answer ins lacks are empty lists in row r
MissingListsEmpty(ins, r) ==
  \A f \in ListFields : ins[f].t = "undefined" => r[f] = EmptyArray

\* the step is not a write of the weekly update, or the record written has
\* an empty list for each list field its answer lacks
BatchUpdateFillsLists ==
  (batch.pc = "update" /\ batch' # batch
     /\ batch'.ret \notin {"NotFound", "ValidationError"})
  => \A ins \in batch.insights, r \in RowsOf(table', batch.list[batch.i]) :
       MissingListsEmpty(ins, r)

\* the same for the record a transaction of updateUser creates
CreateFillsLists ==
  \A p \in Procs :
    (calls[p].op = "updateUser" /\ calls[p].pc = "tx" /\ calls'[p].pc = "done")
    => \A ins \in calls[p].insights, r \in table' \ table : MissingListsEmpty(ins, r)

RateLimited(resp) == resp.kind = "error" /\ resp.status = 429

N429(h) == Cardinality({i \in 1..Len(h) : RateLimited(h[i])})

OnlyRateLimited(h) == \A i \in 1..Len(h) : RateLimited(h[i])

\* C4: with a retry budget of sg.budget, N < budget RateLimited failures
\* followed by an answer make safeGenerate return that answer, fewer failures
\* than the budget never end the call, and more RateLimited failures than the
\* budget make it throw.
C4_RetryPolicy ==
  /\ \A n \in 0..(sg.budget - 1) :
       (Len(sg.hist) = n + 1 /\ OnlyRateLimited(SubSeq(sg.hist, 1, n))
          /\ sg.hist[n + 1].kind = "text")
       => sg.pc = "returned" /\ sg.result = {sg.hist[n + 1].text}
  /\ (sg.pc # "idle" /\ OnlyRateLimited(sg.hist) /\ Len(sg.hist) < sg.budget)
     => sg.pc \in {"call", "backoff"}
  /\ N429(sg.hist) > sg.budget => sg.pc = "thrown" /\ sg.result = {}

\* the default budget, two RateLimited failures, then the answer returned
C4_Witness ==
  /\ sg.pc = "returned"
  /\ sg.budget = DefaultRetries
  /\ N429(sg.hist) = DefaultRetries - 1
  /\ Len(sg.hist) = DefaultRetries
  /\ sg.waits = DefaultRetries - 1

\* C5: a failure that is not RateLimited ends safeGenerate at once: it is the
\* last call of the generator, the call throws, and the only waits are those
\* of the RateLimited failures before it.
C5_OtherFailuresNotRetried ==
  \A i \in 1..Len(sg.hist) :
    (sg.hist[i].kind = "error" /\ sg.hist[i].status # 429)
    => /\ i = Len(sg.hist)
       /\ sg.pc = "thrown"
       /\ sg.waits = i - 1
       /\ sg.waited = (i - 1) * BackoffMs

\* a RateLimited failure was retried, then status 500 with retries left
C5_Witness ==
  /\ sg.pc = "thrown"
  /\ Len(sg.hist) = 2
  /\ RateLimited(sg.hist[1])
  /\ sg.hist[2].status = 500
  /\ sg.retries > 0
  /\ sg.waits = 1

\* the calls of a safeGenerate made with the default budget have all failed
\* with RateLimited so far
AllRateLimitedByDefault ==
  sg.pc # "idle" /\ sg.budget = DefaultRetries /\ OnlyRateLimited(sg.hist)

\* C16 (as stated): with the default budget and every call failing with
\* RateLimited, the generator is invoked at most 3 times in total.
C16_AtMostThreeCalls ==
  AllRateLimitedByDefault => Len(sg.hist) <= 3

\* C16 (amended): with the default budget and every call failing with
\* RateLimited, the generator is invoked at most 4 times in total (the first
\* attempt and 3 retries), the call raises on the 4th failure and not before,
\* and every re-attempt comes after one wait of 30 seconds.
C16_FirstAttemptAndThreeRetries ==
  AllRateLimitedByDefault
  => /\ Len(sg.hist) <= DefaultRetries + 1
     /\ sg.pc = "thrown" <=> Len(sg.hist) = DefaultRetries + 1
     /\ sg.pc = "call" => sg.waits = Len(sg.hist)
     /\ sg.pc \in {"backoff", "thrown"} => sg.waits = Len(sg.hist) - 1
     /\ sg.waited = sg.waits * BackoffMs

\* four RateLimited failures, three waits, then the error
C16_Witness ==
  /\ AllRateLimitedByDefault
  /\ sg.pc = "thrown"
  /\ Len(sg.hist) = 4
  /\ sg.waits = 3
  /\ sg.waited = 90000

\* the generator threw out of safeGenerate, or its text is no JSON
GenerationFailedCompletely ==
  \/ sg.pc = "thrown"
  \/ sg.pc = "returned" /\ \E t \in sg.result : JsonParseThrows(t)

\* C9: for an authenticated existing user, when generation fails completely
\* generateQuiz does not throw and returns exactly one placeholder question.
C9_QuizFallback ==
  (quiz.pc = "done" /\ quiz.caller \in Users /\ GenerationFailedCompletely)
  => /\ quiz.outcome = "returned"
     /\ quiz.ret.defined
     /\ Len(quiz.ret.items) = 1
     /\ quiz.ret = FallbackQuestions

\* the retries were used up on RateLimited failures and the fallback returned
C9_Witness ==
  /\ quiz.pc = "done"
  /\ quiz.caller \in Users
  /\ sg.pc = "thrown"
  /\ N429(sg.hist) = DefaultRetries + 1
  /\ quiz.ret = FallbackQuestions

(***************************************************************************)
(* Properties of enum normalization (SpecEnum)                             *)
(***************************************************************************)
\* the canonical member for a case variant of a member, the default otherwise
Canonical(raw, allowed, fallback) ==
  IF raw.t = "string" /\ ToUpperCase(raw.v) \in Range(allowed)
  THEN Str(ToUpperCase(raw.v))
  ELSE Str(fallback)

Normalized(value) ==
  /\ value.demandLevel = Canonical(en.raw.demandLevel, DemandLevels, MEDIUM)
  /\ value.marketOutlook = Canonical(en.raw.marketOutlook, MarketOutlooks, NEUTRAL)

\* C6: generateAIInsights and normalizeEnum both give, for demandLevel and
\* marketOutlook, the canonical upper-case member for every case variant of a
\* member and the default (MEDIUM, NEUTRAL) for every other raw value.
C6_EnumNormalization ==
  /\ en.interactive.status # "none" => Normalized(en.interactive.value)
  /\ en.batch.status # "none" => en.batch.status = "done" /\ Normalized(en.batch.value)

(***************************************************************************)
(* Properties of the server actions (SpecActions)                          *)
(***************************************************************************)
\* C12: a server action called without a caller identity makes no store
\* access and no generator call, and ends by raising Unauthorized.
C12_UnauthorizedBeforeAnyWork ==
  (act.name # "none" /\ act.caller = Anonymous)
  => /\ act.effects = <<>>
     /\ act.outcome # "none" => act.outcome = "raised" /\ act.error = "Unauthorized"

\* C13: a server action in which a store access failed never ends by
\* returning a value: the failure reaches the caller as a raised error.
C13_PersistenceFailedSurfaces ==
  (act.failed /\ act.outcome # "none") => act.outcome = "raised"

(***************************************************************************)
(* Properties of the cover-letter actions (SpecLetters)                    *)
(***************************************************************************)
\* the rows of db.coverLetter that belong to the caller of the last call
OwnedByCaller(rows) == \A l \in rows : l.userId = UserRowId(cover.last.caller)

\* the rows the step removes are the caller's, removed by deleteCoverLetter
DeletesOwnOnly ==
  \A l \in cover.letters \ cover'.letters :
    l.userId = UserRowId(cover'.last.caller) /\ cover'.last.op = "deleteCoverLetter"

\* the rows the step adds are the caller's, added by generateCoverLetter
CreatesOwnOnly ==
  \A l \in cover'.letters \ cover.letters :
    l.userId = UserRowId(cover'.last.caller) /\ cover'.last.op = "generateCoverLetter"

\* C21: a cover-letter call returns only letters owned by its caller, deletes
\* only letters owned by its caller, whatever id it is given, and a letter
\* created by generateCoverLetter is owned by the caller.
C21_CoverLetterOwnership ==
  /\ [](OwnedByCaller(cover.last.returned))
  /\ [][DeletesOwnOnly /\ CreatesOwnOnly]_vars

\* a writer asked to delete the letter of another writer by its id: the call
\* threw and the letter is still there
C21_Witness ==
  /\ cover.last.op = "deleteCoverLetter"
  /\ cover.last.caller \in Writers
  /\ cover.last.outcome = "raised"
  /\ \E l \in cover.letters :
       /\ l.id = cover.last.id
       /\ l.userId # UserRowId(cover.last.caller)
       /\ \E w \in Writers : l.userId = UserRowId(w)

====
